---- MODULE Spec2Model ----
(***************************************************************************)
(* Model of queue.c: a circular doubly-linked list with a sentinel         *)
(* (struct list_head) whose elements (element_t) own one string each.      *)
(* Memory is modelled at the level of the link fields: every address has a *)
(* next field, a prev field, an allocation status and, for elements, a     *)
(* value.  Each public function of queue.c is one action; its loops are    *)
(* recursive operators that rewrite the link fields as the C code does.    *)
(***************************************************************************)
EXTENDS Integers, Sequences, FiniteSets, TLC

\* ------------------------------------------------------------------ bounds
MaxElems == 3      \* live elements (linked or held by the caller) under Spec
MaxLen == 4        \* longest ring drawn by InitAlg
NumAddrs == 7      \* element addresses available to malloc

\* --------------------------------------------------------------- addresses
NULL == 0
GARBAGE == -1      \* indeterminate content: fresh from malloc, or freed
QHead == 1         \* address of the sentinel returned by q_new
NoStr == <<GARBAGE>>   \* a value field that holds no string
NoBuf == <<GARBAGE>>   \* sp == NULL: no output buffer
Elems == 2..(NumAddrs + 1)
Addr == {QHead} \cup Elems
Fuel == 2 * NumAddrs + 6   \* more steps than any loop over a ring can take

\* ------------------------------------------------------------------ strings
\* A C string argument is a byte buffer that holds a 0 terminator; a stored
\* value is the bytes before the terminator.
Bufs == { <<97, 0>>, <<97, 98, 0>>, <<98, 0, 97>> }
BufSizes == {1, 2, 3}

RECURSIVE strlen(_)
strlen(buf) == IF buf = <<>> \/ Head(buf) = 0 THEN 0 ELSE 1 + strlen(Tail(buf))

strdup(buf) == SubSeq(buf, 1, strlen(buf))

\* byte i (1-based) of a stored string, the terminator past its end
CharAt(s, i) == IF i <= Len(s) THEN s[i] ELSE 0

RECURSIVE strcmpFrom(_, _, _)
strcmpFrom(a, b, i) ==
    IF CharAt(a, i) # CharAt(b, i) THEN CharAt(a, i) - CharAt(b, i)
    ELSE IF CharAt(a, i) = 0 THEN 0
    ELSE strcmpFrom(a, b, i + 1)

strcmp(a, b) == strcmpFrom(a, b, 1)

\* strncpy(sp, value, bufsize) and no terminator written
strncpyAll(v, bufsize) == [i \in 1..bufsize |-> CharAt(v, i)]

\* strncpy(sp, value, bufsize - 1); sp[bufsize - 1] = '\0'
strncpy(v, bufsize) ==
    [i \in 1..bufsize |-> IF i <= bufsize - 1 THEN CharAt(v, i) ELSE 0]

\* -------------------------------------------------------------------- state
VARIABLES next, prev, value, st, held, err, op, ret, sp, old, pushed

vars == <<next, prev, value, st, held, err, op, ret, sp, old, pushed>>

\* The memory as one record, so that the helpers can thread it.
Mem == [next |-> next, prev |-> prev, value |-> value, st |-> st, err |-> err]

SetMem(m) ==
    /\ next' = m.next
    /\ prev' = m.prev
    /\ value' = m.value
    /\ st' = m.st
    /\ err' = m.err

\* Reads through a pointer that is no address give indeterminate content.
Nx(m, p) == IF p \in Addr THEN m.next[p] ELSE GARBAGE
Pv(m, p) == IF p \in Addr THEN m.prev[p] ELSE GARBAGE
Val(m, p) == IF p \in Elems /\ m.value[p] # NoStr THEN m.value[p] ELSE <<>>

Fault(m, what) == [m EXCEPT !.err = @ \cup {what}]

SetNx(m, p, v) ==
    IF p \in Addr /\ m.st[p] = "live" THEN [m EXCEPT !.next[p] = v]
    ELSE Fault(m, "bad_write")

SetPv(m, p, v) ==
    IF p \in Addr /\ m.st[p] = "live" THEN [m EXCEPT !.prev[p] = v]
    ELSE Fault(m, "bad_write")

\* free(p): the block's content becomes indeterminate.
free(m, p) ==
    IF p = NULL THEN m
    ELSE IF p \in Addr /\ m.st[p] = "live"
    THEN [m EXCEPT !.st[p] = "free", !.next[p] = GARBAGE, !.prev[p] = GARBAGE]
    ELSE Fault(m, "bad_free")

\* ------------------------------------------------------------- list.h part
INIT_LIST_HEAD(m, h) == SetPv(SetNx(m, h, h), h, h)

list_empty(m, h) == Nx(m, h) = h

list_add(m, node, h) ==
    LET nx == Nx(m, h)
        m1 == SetPv(m, nx, node)
        m2 == SetNx(m1, node, nx)
        m3 == SetPv(m2, node, h)
    IN  SetNx(m3, h, node)

list_add_tail(m, node, h) ==
    LET pv == Pv(m, h)
        m1 == SetNx(m, pv, node)
        m2 == SetNx(m1, node, h)
        m3 == SetPv(m2, node, pv)
    IN  SetPv(m3, h, node)

\* The links of the node taken out are not meaningful afterwards.
list_del(m, node) ==
    LET nx == Nx(m, node)
        pv == Pv(m, node)
        m1 == SetNx(SetPv(m, nx, pv), pv, nx)
    IN  SetPv(SetNx(m1, node, GARBAGE), node, GARBAGE)

\* q_release_element(e): free(e->value); free(e)
q_release_element(m, e) ==
    LET m1 == IF e \in Elems /\ m.st[e] = "live" THEN [m EXCEPT !.value[e] = NoStr]
              ELSE m
    IN  free(m1, e)

\* ---------------------------------------------------------- reading a ring
RECURSIVE Walk(_, _, _)
Walk(f, cur, fuel) ==
    IF cur = QHead THEN <<>>
    ELSE IF cur \notin Elems \/ fuel = 0 THEN <<GARBAGE>>
    ELSE <<cur>> \o Walk(f, f[cur], fuel - 1)

Reverse(s) == [i \in 1..Len(s) |-> s[Len(s) + 1 - i]]
Range(s) == {s[i] : i \in 1..Len(s)}

\* elements head to tail by next, and tail to head by prev
SeqOf(m) == IF m.st[QHead] = "live" THEN Walk(m.next, m.next[QHead], Fuel) ELSE <<>>
BackOf(m) == IF m.st[QHead] = "live" THEN Walk(m.prev, m.prev[QHead], Fuel) ELSE <<>>
ValuesOf(m) == [i \in 1..Len(SeqOf(m)) |-> Val(m, SeqOf(m)[i])]

Ring == SeqOf(Mem)
OldRing == SeqOf(old)

\* -------------------------------------------------------------------- init
\* the call before the last was no successful q_insert_head
NoPush == [s |-> <<>>, ring |-> <<>>, vals |-> <<>>]

NoMem ==
    [next |-> [a \in Addr |-> GARBAGE], prev |-> [a \in Addr |-> GARBAGE],
     value |-> [a \in Elems |-> NoStr], st |-> [a \in Addr |-> "free"],
     err |-> {}]

\* q_new with a successful malloc
NewQueue(m) == INIT_LIST_HEAD([m EXCEPT !.st[QHead] = "live"], QHead)

Init ==
    /\ next = NewQueue(NoMem).next
    /\ prev = NewQueue(NoMem).prev
    /\ value = NewQueue(NoMem).value
    /\ st = NewQueue(NoMem).st
    /\ err = {}
    /\ held = {}
    /\ op = [name |-> "q_new", l |-> NULL]
    /\ ret = QHead
    /\ sp = NoBuf
    /\ old = NoMem
    /\ pushed = NoPush

\* No call is in progress and the last call's result has been taken.
Idle == op.name = "idle"

\* The caller takes the result of the last call; its record is dropped.  When
\* the call was a successful q_insert_head, the caller still knows what it
\* inserted and what the queue held before, until its next call has returned.
Return ==
    /\ ~Idle
    /\ op' = [name |-> "idle"]
    /\ ret' = NULL
    /\ sp' = NoBuf
    /\ old' = NoMem
    /\ pushed' = IF op.name = "q_insert_head" /\ ret = TRUE
                 THEN [s |-> op.s, ring |-> SeqOf(old), vals |-> ValuesOf(old)]
                 ELSE NoPush
    /\ UNCHANGED <<next, prev, value, st, err, held>>

\* The handles a caller can pass: NULL, or the queue while it exists.
Handles == {NULL} \cup {h \in {QHead} : st[h] = "live"}

\* malloc returns a block that is not in use: the lowest such address.
NotLive == {a \in Elems : st[a] # "live"}
Mallocable == {a \in NotLive : \A b \in NotLive : a <= b}
LiveElems == {a \in Elems : st[a] = "live"}

\* ------------------------------------------------------------ insert/remove
\* list_add(&e->list, head) in q_insert_head, list_add_tail in q_insert_tail
LinkAtHead(m, e, l, tail) == list_add(m, e, l)

LinkAtTail(m, e, l, tail) == list_add_tail(m, e, l)

Link(m, e, l, tail) == IF tail THEN list_add_tail(m, e, l) ELSE list_add(m, e, l)

\* the node is kept when the copy of the string fails
StrdupFailedLeak(m, e) == m

\* if (!e->value) { q_release_element(e); return false; }
StrdupFailed(m, e) == q_release_element(m, e)

\* The whole of q_insert_head / q_insert_tail; tail selects q_insert_tail.
Insert(m, l, buf, e, outcome, tail) ==
    IF l = NULL THEN [m |-> m, ret |-> FALSE]
    ELSE IF outcome = "nomem_node" THEN [m |-> m, ret |-> FALSE]
    ELSE
      LET m1 == [m EXCEPT !.st[e] = "live", !.next[e] = GARBAGE,
                          !.prev[e] = GARBAGE, !.value[e] = NoStr]
      IN  IF outcome = "nomem_str"
          THEN [m |-> StrdupFailed(m1, e), ret |-> FALSE]
          ELSE LET m2 == [m1 EXCEPT !.value[e] = strdup(buf)]
               IN  [m |-> Link(m2, e, l, tail), ret |-> TRUE]

Outcomes == {"ok", "nomem_node", "nomem_str"}

q_insert_head ==
    \E l \in Handles, buf \in Bufs, outcome \in Outcomes, e \in Mallocable :
        /\ Idle
        /\ Cardinality(LiveElems) < MaxElems
        /\ LET r == Insert(Mem, l, buf, e, outcome, FALSE)
           IN  /\ SetMem(r.m)
               /\ ret' = r.ret
        /\ op' = [name |-> "q_insert_head", l |-> l, s |-> buf,
                  outcome |-> IF l = NULL THEN "null" ELSE outcome]
        /\ old' = Mem
        /\ UNCHANGED pushed
        /\ sp' = NoBuf
        /\ UNCHANGED held

q_insert_tail ==
    \E l \in Handles, buf \in Bufs, outcome \in Outcomes, e \in Mallocable :
        /\ Idle
        /\ Cardinality(LiveElems) < MaxElems
        /\ LET r == Insert(Mem, l, buf, e, outcome, TRUE)
           IN  /\ SetMem(r.m)
               /\ ret' = r.ret
        /\ op' = [name |-> "q_insert_tail", l |-> l, s |-> buf,
                  outcome |-> IF l = NULL THEN "null" ELSE outcome]
        /\ old' = Mem
        /\ UNCHANGED pushed
        /\ sp' = NoBuf
        /\ UNCHANGED held

\* q_remove_head / q_remove_tail without the list_del
RemoveNoUnlink(m, l, bufsize, tail) ==
    IF l = NULL \/ list_empty(m, l) THEN [m |-> m, ret |-> NULL, sp |-> NoBuf]
    ELSE
      LET e == IF tail THEN Pv(m, l) ELSE Nx(m, l)
      IN  [m |-> m, ret |-> e,
           sp |-> IF bufsize = NULL THEN NoBuf ELSE strncpy(Val(m, e), bufsize)]

\* q_remove_head / q_remove_tail that delete: the element is released too
RemoveAndRelease(m, l, bufsize, tail) ==
    IF l = NULL \/ list_empty(m, l) THEN [m |-> m, ret |-> NULL, sp |-> NoBuf]
    ELSE
      LET e == IF tail THEN Pv(m, l) ELSE Nx(m, l)
          m1 == list_del(m, e)
      IN  [m |-> q_release_element(m1, e), ret |-> e,
           sp |-> IF bufsize = NULL THEN NoBuf ELSE strncpy(Val(m1, e), bufsize)]

\* The whole of q_remove_head / q_remove_tail; bufsize = NULL means sp == NULL.
Remove(m, l, bufsize, tail) ==
    IF l = NULL \/ list_empty(m, l) THEN [m |-> m, ret |-> NULL, sp |-> NoBuf]
    ELSE
      LET e == IF tail THEN Pv(m, l) ELSE Nx(m, l)
          m1 == list_del(m, e)
      IN  [m |-> m1, ret |-> e,
           sp |-> IF bufsize = NULL THEN NoBuf ELSE strncpy(Val(m1, e), bufsize)]

q_remove_head ==
    \E l \in Handles, bufsize \in BufSizes \cup {NULL} :
        /\ Idle
        /\ LET r == Remove(Mem, l, bufsize, FALSE)
           IN  /\ SetMem(r.m)
               /\ ret' = r.ret
               /\ sp' = r.sp
               /\ held' = IF r.ret = NULL THEN held ELSE held \cup {r.ret}
        /\ op' = [name |-> "q_remove_head", l |-> l, bufsize |-> bufsize]
        /\ old' = Mem
        /\ UNCHANGED pushed

q_remove_tail ==
    \E l \in Handles, bufsize \in BufSizes \cup {NULL} :
        /\ Idle
        /\ LET r == Remove(Mem, l, bufsize, TRUE)
           IN  /\ SetMem(r.m)
               /\ ret' = r.ret
               /\ sp' = r.sp
               /\ held' = IF r.ret = NULL THEN held ELSE held \cup {r.ret}
        /\ op' = [name |-> "q_remove_tail", l |-> l, bufsize |-> bufsize]
        /\ old' = Mem
        /\ UNCHANGED pushed

\* The caller hands a removed element back.
release_held ==
    \E e \in held :
        /\ Idle
        /\ SetMem(q_release_element(Mem, e))
        /\ held' = held \ {e}
        /\ op' = [name |-> "q_release_element", e |-> e]
        /\ ret' = NULL
        /\ sp' = NoBuf
        /\ old' = Mem
        /\ UNCHANGED pushed

\* ------------------------------------------------------------------ q_new
q_new ==
    \E ok \in BOOLEAN :
        /\ Idle
        /\ st[QHead] # "live"
        /\ SetMem(IF ok THEN NewQueue(Mem) ELSE Mem)
        /\ ret' = IF ok THEN QHead ELSE NULL
        /\ op' = [name |-> "q_new", l |-> NULL]
        /\ old' = Mem
        /\ UNCHANGED pushed
        /\ sp' = NoBuf
        /\ UNCHANGED held

\* ----------------------------------------------------------------- q_free
\* list_for_each_entry_safe (pos, n, l, list) q_release_element(pos);
\* list_for_each_entry: the next element is read from the released one
RECURSIVE FreeLoopUnsafe(_, _, _, _, _)
FreeLoopUnsafe(m, l, pos, n, fuel) ==
    IF fuel = 0 THEN Fault(m, "hung")
    ELSE IF pos # l
    THEN LET m1 == q_release_element(m, pos)
         IN  FreeLoopUnsafe(m1, l, Nx(m1, pos), n, fuel - 1)
    ELSE m

RECURSIVE FreeLoop(_, _, _, _, _)
FreeLoop(m, l, pos, n, fuel) ==
    IF fuel = 0 THEN Fault(m, "hung")
    ELSE IF pos # l
    THEN LET m1 == q_release_element(m, pos)
         IN  FreeLoop(m1, l, n, Nx(m1, n), fuel - 1)
    ELSE m

Free(m, l) ==
    IF l = NULL THEN m
    ELSE free(FreeLoop(m, l, Nx(m, l), Nx(m, Nx(m, l)), Fuel), l)

q_free ==
    \E l \in Handles :
        /\ Idle
        /\ SetMem(Free(Mem, l))
        /\ ret' = NULL
        /\ op' = [name |-> "q_free", l |-> l]
        /\ old' = Mem
        /\ UNCHANGED pushed
        /\ sp' = NoBuf
        /\ UNCHANGED held

\* ----------------------------------------------------------------- q_size
RECURSIVE SizeLoop(_, _, _, _)
SizeLoop(m, l, pos, fuel) ==
    IF fuel = 0 THEN 0
    ELSE IF pos # l THEN 1 + SizeLoop(m, l, Nx(m, pos), fuel - 1)
    ELSE 0

\* the count includes the sentinel
SizeWithHead(m, l) ==
    IF l = NULL \/ list_empty(m, l) THEN 0 ELSE 1 + SizeLoop(m, l, Nx(m, l), Fuel)

Size(m, l) ==
    IF l = NULL \/ list_empty(m, l) THEN 0 ELSE SizeLoop(m, l, Nx(m, l), Fuel)

q_size ==
    \E l \in Handles :
        /\ Idle
        /\ ret' = Size(Mem, l)
        /\ op' = [name |-> "q_size", l |-> l]
        /\ old' = Mem
        /\ UNCHANGED pushed
        /\ sp' = NoBuf
        /\ UNCHANGED <<next, prev, value, st, err, held>>

\* ----------------------------------------------------------- q_delete_mid
HUNG == -3     \* a loop that ran out of fuel

\* the scan looks for a null end, which a ring does not have
MidContinueNull(m, l, fast) == fast # NULL /\ Nx(m, fast) # NULL

\* the scan stops one node earlier
MidContinueEarly(m, l, fast) == Nx(m, fast) # l /\ Nx(m, Nx(m, fast)) # l

\* fast != head && fast->next != head
MidContinue(m, l, fast) == fast # l /\ Nx(m, fast) # l

RECURSIVE MidLoop(_, _, _, _, _)
MidLoop(m, l, fast, slow, fuel) ==
    IF fuel = 0 THEN HUNG
    ELSE IF MidContinue(m, l, fast)
    THEN MidLoop(m, l, Nx(m, Nx(m, fast)), Nx(m, slow), fuel - 1)
    ELSE slow

\* the middle node is released before it is unlinked
DeleteMidReleaseFirst(m, l) ==
    IF l = NULL \/ list_empty(m, l) THEN [m |-> m, ret |-> FALSE]
    ELSE LET slow == MidLoop(m, l, Nx(m, l), Nx(m, l), Fuel)
         IN  IF slow = HUNG THEN [m |-> Fault(m, "hung"), ret |-> FALSE]
             ELSE [m |-> list_del(q_release_element(m, slow), slow), ret |-> TRUE]

DeleteMid(m, l) ==
    IF l = NULL \/ list_empty(m, l) THEN [m |-> m, ret |-> FALSE]
    ELSE LET slow == MidLoop(m, l, Nx(m, l), Nx(m, l), Fuel)
         IN  IF slow = HUNG THEN [m |-> Fault(m, "hung"), ret |-> FALSE]
             ELSE [m |-> q_release_element(list_del(m, slow), slow), ret |-> TRUE]

q_delete_mid ==
    \E l \in Handles :
        /\ Idle
        /\ LET r == DeleteMid(Mem, l)
           IN  /\ SetMem(r.m)
               /\ ret' = r.ret
        /\ op' = [name |-> "q_delete_mid", l |-> l]
        /\ old' = Mem
        /\ UNCHANGED pushed
        /\ sp' = NoBuf
        /\ UNCHANGED held

\* ----------------------------------------------------------- q_delete_dup
\* the payload of a node that is read must be a live element's
RdVal(m, p) == IF p \in Elems /\ m.st[p] = "live" THEN m ELSE Fault(m, "bad_read")

RECURSIVE DupInner(_, _, _, _, _, _)
DupInner(m, l, start, end, pv, fuel) ==
    IF fuel = 0 THEN [m |-> Fault(m, "hung"), end |-> l, pv |-> NULL]
    ELSE IF end # l /\ strcmp(Val(m, start), Val(m, end)) = 0
    THEN LET nxt == Nx(m, end)
             m1 == list_del(RdVal(RdVal(m, start), end), end)
             m2 == q_release_element(m1, end)
         IN  DupInner(m2, l, start, nxt, start, fuel - 1)
    ELSE [m |-> IF end # l THEN RdVal(RdVal(m, start), end) ELSE m,
          end |-> end, pv |-> pv]

\* the first node of a run of duplicates is kept
DropRunStartNever(m, pv) == m

\* if (prev) { list_del(prev); q_release_element(e1); }
DropRunStart(m, pv) ==
    IF pv # NULL THEN q_release_element(list_del(m, pv), pv) ELSE m

RECURSIVE DupOuter(_, _, _, _, _)
DupOuter(m, l, start, end, fuel) ==
    IF fuel = 0 THEN Fault(m, "hung")
    ELSE IF end # l
    THEN LET r == DupInner(m, l, start, Nx(m, start), NULL, Fuel)
             m1 == DropRunStart(r.m, r.pv)
         IN  DupOuter(m1, l, r.end, r.end, fuel - 1)
    ELSE m

DeleteDup(m, l) ==
    IF l = NULL THEN [m |-> m, ret |-> FALSE]
    ELSE IF list_empty(m, l) THEN [m |-> m, ret |-> TRUE]
    ELSE [m |-> DupOuter(m, l, Nx(m, l), NULL, Fuel), ret |-> TRUE]

q_delete_dup ==
    \E l \in Handles :
        /\ Idle
        /\ LET r == DeleteDup(Mem, l)
           IN  /\ SetMem(r.m)
               /\ ret' = r.ret
        /\ op' = [name |-> "q_delete_dup", l |-> l]
        /\ old' = Mem
        /\ UNCHANGED pushed
        /\ sp' = NoBuf
        /\ UNCHANGED held

\* ----------------------------------------------------------------- q_swap
\* the loop goes on from the node that was moved in front
SwapAdvanceFromNext(m, n, nxt) == Nx(m, nxt)

\* n = n->next, after n was moved behind its successor
SwapAdvance(m, n, nxt) == Nx(m, n)

RECURSIVE SwapLoop(_, _, _, _)
SwapLoop(m, l, n, fuel) ==
    IF fuel = 0 THEN Fault(m, "hung")
    ELSE IF n # l /\ Nx(m, n) # l
    THEN LET nxt == Nx(m, n)
             m1 == list_add(list_del(m, n), n, nxt)
         IN  SwapLoop(m1, l, SwapAdvance(m1, n, nxt), fuel - 1)
    ELSE m

Swap(m, l) == IF l = NULL THEN m ELSE SwapLoop(m, l, Nx(m, l), Fuel)

q_swap ==
    \E l \in Handles :
        /\ Idle
        /\ SetMem(Swap(Mem, l))
        /\ ret' = NULL
        /\ op' = [name |-> "q_swap", l |-> l]
        /\ old' = Mem
        /\ UNCHANGED pushed
        /\ sp' = NoBuf
        /\ UNCHANGED held

\* -------------------------------------------------------------- q_reverse
\* the walk stops before it flips the last node
RevContinueEarly(m, l, curr, nxt) == Nx(m, curr) # l

\* while (next != head)
RevContinue(m, l, curr, nxt) == nxt # l

RECURSIVE RevLoop(_, _, _, _, _, _)
RevLoop(m, l, pv, curr, nxt, fuel) ==
    IF fuel = 0 THEN Fault(m, "hung")
    ELSE IF RevContinue(m, l, curr, nxt)
    THEN LET n1 == Nx(m, curr)
             m1 == SetPv(SetNx(m, curr, pv), curr, n1)
         IN  RevLoop(m1, l, curr, n1, n1, fuel - 1)
    ELSE m

Reverse_(m, l) ==
    IF l = NULL \/ list_empty(m, l) THEN m
    ELSE RevLoop(m, l, Pv(m, l), l, NULL, Fuel)

q_reverse ==
    \E l \in Handles :
        /\ Idle
        /\ SetMem(Reverse_(Mem, l))
        /\ ret' = NULL
        /\ op' = [name |-> "q_reverse", l |-> l]
        /\ old' = Mem
        /\ UNCHANGED pushed
        /\ sp' = NoBuf
        /\ UNCHANGED held

\* ----------------------------------------------------------------- q_sort
\* (uintptr_t) l1 | (uintptr_t) l2
\* only the rest of the first list is spliced on
BitOrFirst(a, b) == a

RECURSIVE BitOr(_, _)
BitOr(a, b) ==
    IF a < 0 \/ b < 0 THEN GARBAGE
    ELSE IF a = 0 THEN b
    ELSE IF b = 0 THEN a
    ELSE (IF a % 2 = 1 \/ b % 2 = 1 THEN 1 ELSE 0) + 2 * BitOr(a \div 2, b \div 2)

AtHead == -4    \* ptr == &head, the local of merge_two_lists

\* *ptr = v
SetAt(r, ptr, v) ==
    IF ptr = AtHead THEN [r EXCEPT !.head = v]
    ELSE [r EXCEPT !.m = SetNx(r.m, ptr, v)]

\* the second list wins a tie
TakeFirstStrict(c) == c < 0

\* the greater head is taken
TakeFirstGreater(c) == c >= 0

\* strcmp(...) <= 0 ? &l1 : &l2
TakeFirst(c) == c <= 0

\* r = [m, head]; the for loop of merge_two_lists and the final splice
RECURSIVE MergeLoop(_, _, _, _, _)
MergeLoop(r, l1, l2, ptr, fuel) ==
    IF fuel = 0 THEN [r EXCEPT !.m = Fault(r.m, "hung")]
    ELSE IF l1 # NULL /\ l2 # NULL
    THEN LET first == TakeFirst(strcmp(Val(r.m, l1), Val(r.m, l2)))
             node == IF first THEN l1 ELSE l2
             r1 == SetAt(r, ptr, node)
             adv == Nx(r1.m, node)
         IN  MergeLoop(r1, IF first THEN adv ELSE l1, IF first THEN l2 ELSE adv,
                       node, fuel - 1)
    ELSE SetAt(r, ptr, BitOr(l1, l2))

merge_two_lists(m, l1, l2) ==
    MergeLoop([m |-> m, head |-> NULL], l1, l2, AtHead, Fuel)

RECURSIVE SplitLoop(_, _, _, _)
SplitLoop(m, fast, slow, fuel) ==
    IF fuel = 0 THEN HUNG
    ELSE IF fast # NULL /\ Nx(m, fast) # NULL
    THEN SplitLoop(m, Nx(m, Nx(m, fast)), Nx(m, slow), fuel - 1)
    ELSE slow

\* The halves are disjoint chains, so the order in which C evaluates the two
\* recursive calls does not show in the result; the first half is sorted first.
RECURSIVE merge_sort(_, _, _)
merge_sort(m, head, fuel) ==
    IF fuel = 0 THEN [m |-> Fault(m, "hung"), head |-> head]
    ELSE IF head = NULL \/ Nx(m, head) = NULL THEN [m |-> m, head |-> head]
    ELSE LET slow == SplitLoop(m, Nx(m, head), head, Fuel)
         IN  IF slow = HUNG THEN [m |-> Fault(m, "hung"), head |-> head]
             ELSE LET fast == Nx(m, slow)
                      m1 == SetNx(m, slow, NULL)
                      a == merge_sort(m1, head, fuel - 1)
                      b == merge_sort(a.m, fast, fuel - 1)
                  IN  merge_two_lists(b.m, a.head, b.head)

\* for (n = head; n->next != NULL; n = n->next) n->next->prev = n;
RECURSIVE ThreadLoop(_, _, _)
ThreadLoop(m, n, fuel) ==
    IF fuel = 0 THEN [m |-> Fault(m, "hung"), n |-> n]
    ELSE IF Nx(m, n) # NULL
    THEN ThreadLoop(SetPv(m, Nx(m, n), n), Nx(m, n), fuel - 1)
    ELSE [m |-> m, n |-> n]

\* the sentinel's prev is left as it was
CloseRingNoPrev(m, l, n) == SetNx(m, n, l)

\* head->prev = n; n->next = head;
CloseRing(m, l, n) == SetNx(SetPv(m, l, n), n, l)

Sort(m, l) ==
    IF Size(m, l) <= 1 THEN m
    ELSE LET list == Nx(m, l)
             m1 == SetNx(m, Pv(m, l), NULL)
             r == merge_sort(m1, list, Fuel)
             m2 == SetNx(r.m, l, r.head)
             t == ThreadLoop(m2, l, Fuel)
         IN  CloseRing(t.m, l, t.n)

q_sort ==
    \E l \in Handles :
        /\ Idle
        /\ SetMem(Sort(Mem, l))
        /\ ret' = NULL
        /\ op' = [name |-> "q_sort", l |-> l]
        /\ old' = Mem
        /\ UNCHANGED pushed
        /\ sp' = NoBuf
        /\ UNCHANGED held

Next ==
    \/ Return
    \/ q_insert_head
    \/ q_insert_tail
    \/ q_remove_head
    \/ q_remove_tail
    \/ release_held
    \/ q_new
    \/ q_free
    \/ q_size
    \/ q_delete_mid
    \/ q_delete_dup
    \/ q_swap
    \/ q_reverse
    \/ q_sort

Spec == Init /\ [][Next]_vars

\* ------------------------------------------------- the algorithms on rings
\* Rings that insert_tail calls build: n elements at the first n addresses,
\* in order, each with a stored string.
Strs == {strdup(b) : b \in Bufs}

\* the rings of the examples: [a..f], [1,1,2,3,3,3,4], [1,2,3,4,5], [1,2,3]
Examples ==
    { <<<<97>>, <<98>>, <<99>>, <<100>>, <<101>>, <<102>>>>,
      <<<<49>>, <<49>>, <<50>>, <<51>>, <<51>>, <<51>>, <<52>>>>,
      <<<<49>>, <<50>>, <<51>>, <<52>>, <<53>>>>,
      <<<<49>>, <<50>>, <<51>>>> }

RingInputs ==
    UNION {[1..n -> Strs] : n \in 0..MaxLen} \cup Examples

\* the memory after q_new and insert_tail of vs[1], ..., vs[Len(vs)]
RingMem(vs) ==
    LET n == Len(vs)
        at(i) == IF i = 0 \/ i = n + 1 THEN QHead ELSE i + 1
        idx(a) == IF a = QHead THEN 0 ELSE a - 1
    IN  [next |-> [a \in Addr |-> IF idx(a) <= n THEN at(idx(a) + 1) ELSE GARBAGE],
         prev |-> [a \in Addr |-> IF idx(a) <= n
                                   THEN at(IF idx(a) = 0 THEN n ELSE idx(a) - 1)
                                   ELSE GARBAGE],
         value |-> [a \in Elems |-> IF idx(a) <= n THEN vs[idx(a)] ELSE NoStr],
         st |-> [a \in Addr |-> IF idx(a) <= n THEN "live" ELSE "free"],
         err |-> {}]

InitAlg ==
    \E vs \in RingInputs :
        /\ next = RingMem(vs).next
        /\ prev = RingMem(vs).prev
        /\ value = RingMem(vs).value
        /\ st = RingMem(vs).st
        /\ err = {}
        /\ held = {}
        /\ op = [name |-> "idle"]
        /\ ret = NULL
        /\ sp = NoBuf
        /\ old = NoMem
        /\ pushed = NoPush

NextAlg ==
    \/ Return
    \/ q_size
    \/ q_delete_mid
    \/ q_delete_dup
    \/ q_swap
    \/ q_reverse
    \/ q_sort

SpecAlg == InitAlg /\ [][NextAlg]_vars

\* ------------------------------------------------------------ properties
Values == ValuesOf(Mem)
OldValues == ValuesOf(old)

NoDup(s) == Cardinality(Range(s)) = Len(s)
Pos(s, x) == CHOOSE i \in 1..Len(s) : s[i] = x
Without(s, k) == [i \in 1..(Len(s) - 1) |-> IF i < k THEN s[i] ELSE s[i + 1]]
Count(vs, v) == Cardinality({i \in 1..Len(vs) : vs[i] = v})

\* a <= b in the byte-wise order of strings
LeqBytes(a, b) ==
    \/ /\ Len(a) <= Len(b)
       /\ \A j \in 1..Len(a) : a[j] = b[j]
    \/ \E k \in 1..Len(a) :
          /\ k <= Len(b)
          /\ \A j \in 1..(k - 1) : a[j] = b[j]
          /\ a[k] < b[k]

Ascending(vs) == \A i \in 1..(Len(vs) - 1) : LeqBytes(vs[i], vs[i + 1])

\* The ring of memory m, whose caller holds the elements h, is closed and
\* link-symmetric, and it is made of exactly the live elements not held.
Closed(m, h) ==
    LET s == SeqOf(m)
        ring == {QHead} \cup Range(s)
    IN  /\ GARBAGE \notin Range(s)
        /\ NoDup(s)
        /\ BackOf(m) = Reverse(s)
        /\ \A a \in ring :
              /\ m.st[a] = "live"
              /\ m.next[a] \in ring
              /\ m.prev[a] \in ring
              /\ m.prev[m.next[a]] = a
              /\ m.next[m.prev[a]] = a
        /\ Range(s) = {a \in Elems : m.st[a] = "live"} \ h
        /\ \A a \in Range(s) : m.value[a] # NoStr

\* the elements other than those in gone are as they were
SameValues(gone) ==
    \A a \in Range(OldRing) \ gone : value[a] = old.value[a]

InsertNames == {"q_insert_head", "q_insert_tail"}
RemoveNames == {"q_remove_head", "q_remove_tail"}
AlgNames == {"q_delete_mid", "q_delete_dup", "q_swap", "q_reverse", "q_sort"}

\* C1: after every q_insert_head, q_insert_tail, q_remove_head and
\* q_remove_tail call, failed or not, the ring is closed and link-symmetric:
\* the next-walk from the sentinel visits every linked element once and
\* returns, the prev-walk visits them in reverse, and A.next.prev = A and
\* A.prev.next = A for every node A of the ring.
C1_RingAfterInsertRemove ==
    op.name \in InsertNames \cup RemoveNames /\ st[QHead] = "live" =>
        Closed(Mem, held) /\ err = {}

C1_Witness ==
    /\ op.name = "q_remove_tail"
    /\ ret # NULL
    /\ Len(OldRing) = 3
    /\ Len(Ring) = 2

\* C2: after q_delete_mid, q_delete_dup, q_swap, q_reverse and q_sort on a
\* well-formed ring of any length, the ring is closed and link-symmetric
\* again, no node of it has a null or stale link, and no write went through
\* such a link.
C2_RingAfterAlgorithms ==
    op.name \in AlgNames /\ st[QHead] = "live" => Closed(Mem, held) /\ err = {}

C2_Witness ==
    /\ op.name = "q_sort"
    /\ Len(OldRing) = 4
    /\ Ring # OldRing
    /\ Closed(old, held)

\* C3: after q_sort every adjacent pair of payloads is in ascending byte-wise
\* order, and the multiset of payloads is the one before the call.
C3_SortCorrect ==
    op.name = "q_sort" /\ op.l # NULL =>
        /\ Ascending(Values)
        /\ Len(Values) = Len(OldValues)
        /\ \A v \in Range(OldValues) : Count(Values, v) = Count(OldValues, v)

C3_Witness ==
    /\ op.name = "q_sort"
    /\ Len(OldRing) = 4
    /\ ~Ascending(OldValues)
    /\ \E i, k \in 1..4 : i # k /\ OldValues[i] = OldValues[k]
    /\ Ascending(Values)

\* C4: q_sort is stable: of two elements with equal payloads, the one that
\* came first before the call comes first after it.
C4_SortStable ==
    op.name = "q_sort" /\ op.l # NULL =>
        \A i, k \in 1..Len(OldRing) :
            i < k /\ old.value[OldRing[i]] = old.value[OldRing[k]] =>
                /\ OldRing[i] \in Range(Ring)
                /\ OldRing[k] \in Range(Ring)
                /\ Pos(Ring, OldRing[i]) < Pos(Ring, OldRing[k])

\* equal payloads in the two halves of the first split, and elements moved
C4_Witness ==
    /\ op.name = "q_sort"
    /\ Len(OldRing) = 4
    /\ OldValues[1] = OldValues[3]
    /\ OldValues[2] = OldValues[4]
    /\ Ring # OldRing

StrA == <<97>>
StrB == <<98>>
StrC == <<99>>
StrD == <<100>>
StrE == <<101>>
StrF == <<102>>

RECURSIVE Uniques(_)
Uniques(s) ==
    IF s = <<>> THEN <<>>
    ELSE (IF Count(OldValues, old.value[Head(s)]) = 1 THEN <<Head(s)>> ELSE <<>>)
             \o Uniques(Tail(s))

Str1 == <<49>>
Str2 == <<50>>
Str3 == <<51>>
Str4 == <<52>>
Str5 == <<53>>

\* C7: on a ring sorted ascending, q_delete_dup leaves exactly the elements
\* whose payload occurred once, in their order, releases the others and
\* returns true (also on an empty ring, which it leaves alone); on a null
\* handle it returns false.  [1,1,2,3,3,3,4] becomes [2,4].
C7_DeleteDup ==
    op.name = "q_delete_dup" =>
        IF op.l = NULL THEN ret = FALSE /\ Mem = old
        ELSE /\ ret = TRUE
             /\ OldRing = <<>> => Mem = old
             /\ Ascending(OldValues) =>
                    /\ Ring = Uniques(OldRing)
                    /\ \A a \in Range(OldRing) \ Range(Ring) : st[a] = "free"
                    /\ SameValues(Range(OldRing) \ Range(Ring))
                    /\ err = {}
             /\ OldValues = <<Str1, Str1, Str2, Str3, Str3, Str3, Str4>> =>
                    Values = <<Str2, Str4>>

C7_Witness ==
    /\ op.name = "q_delete_dup"
    /\ OldValues = <<Str1, Str1, Str2, Str3, Str3, Str3, Str4>>
    /\ Values = <<Str2, Str4>>

\* C8: q_swap exchanges the elements of every pair of positions (2i, 2i+1)
\* with 2i+1 < n and leaves the last element of an odd ring in place; a
\* null, empty or one-element container is unchanged.  [1,2,3,4,5] becomes
\* [2,1,4,3,5].
C8_Swap ==
    op.name = "q_swap" =>
        IF op.l = NULL \/ Len(OldRing) <= 1 THEN Mem = old
        ELSE /\ Len(Ring) = Len(OldRing)
             /\ \A i \in 1..Len(OldRing) :
                    Ring[i] = IF i % 2 = 1 /\ i < Len(OldRing) THEN OldRing[i + 1]
                              ELSE IF i % 2 = 0 THEN OldRing[i - 1]
                              ELSE OldRing[i]
             /\ SameValues({})
             /\ OldValues = <<Str1, Str2, Str3, Str4, Str5>> =>
                    Values = <<Str2, Str1, Str4, Str3, Str5>>

C8_Witness ==
    /\ op.name = "q_swap"
    /\ OldValues = <<Str1, Str2, Str3, Str4, Str5>>
    /\ Values = <<Str2, Str1, Str4, Str3, Str5>>

\* C9: q_reverse puts the elements in the order e(n-1)..e0; q_reverse twice
\* gives back the links as they were; a null or empty container is unchanged.
C9_Reverse ==
    /\ op.name = "q_reverse" =>
           IF op.l = NULL \/ OldRing = <<>> THEN Mem = old
           ELSE Ring = Reverse(OldRing) /\ SameValues({})
    /\ st[QHead] = "live" => Reverse_(Reverse_(Mem, QHead), QHead) = Mem

C9_Witness ==
    /\ op.name = "q_reverse"
    /\ Len(OldRing) = 4
    /\ Ring = Reverse(OldRing)
    /\ SeqOf(Reverse_(Mem, QHead)) = OldRing

\* s is the bytes of buf before its terminator
IsCopyOf(s, buf) ==
    /\ Len(s) < Len(buf)
    /\ buf[Len(s) + 1] = 0
    /\ \A i \in 1..Len(s) : s[i] = buf[i] /\ s[i] # 0

\* C10: a successful q_insert_head puts a new element with the payload
\* first and a successful q_insert_tail puts it last; the elements linked
\* before keep their order and payloads.
C10_Insert ==
    op.name \in InsertNames /\ ret = TRUE =>
        /\ Len(Ring) = Len(OldRing) + 1
        /\ LET e == IF op.name = "q_insert_head" THEN Ring[1] ELSE Ring[Len(Ring)]
           IN  /\ e \notin Range(OldRing)
               /\ old.st[e] = "free"
               /\ IsCopyOf(value[e], op.s)
               /\ next[QHead] = e \/ op.name = "q_insert_tail"
               /\ prev[QHead] = e \/ op.name = "q_insert_head"
        /\ Ring = IF op.name = "q_insert_head" THEN <<Ring[1]>> \o OldRing
                  ELSE OldRing \o <<Ring[Len(Ring)]>>
        /\ SameValues({})

C10_Witness ==
    /\ op.name = "q_insert_tail"
    /\ ret = TRUE
    /\ Len(OldRing) = 2
    /\ Len(op.s) = 3
    /\ value[Ring[3]] = <<98>>

\* C11: on a non-empty container q_remove_head returns the first element
\* and q_remove_tail the last; the element is out of the ring (by next and
\* by prev) but not released, it keeps its payload, and the others keep
\* their order.  On a null or empty container both return null and nothing
\* changes.
C11_Remove ==
    op.name \in RemoveNames =>
        IF op.l = NULL \/ OldRing = <<>>
        THEN ret = NULL /\ Mem = old
        ELSE LET k == IF op.name = "q_remove_head" THEN 1 ELSE Len(OldRing)
             IN  /\ ret = OldRing[k]
                 /\ Ring = Without(OldRing, k)
                 /\ BackOf(Mem) = Reverse(Ring)
                 /\ ret \notin Range(Ring)
                 /\ st = old.st
                 /\ value = old.value
                 /\ ret \in held
                 /\ err = {}

C11_Witness ==
    /\ op.name = "q_remove_tail"
    /\ Len(OldRing) = 3
    /\ ret = OldRing[3]
    /\ st[ret] = "live"
    /\ Ring = <<OldRing[1], OldRing[2]>>

\* C12: q_size returns 0 for a null or empty container and the number of
\* linked elements otherwise; it grows by one over an insert that returns
\* true, shrinks by one over a removal that returns an element, and a
\* removal on an empty container returns null and leaves it 0.
C12_Size ==
    /\ op.name = "q_size" =>
           /\ ret = IF op.l = NULL THEN 0 ELSE Len(OldRing)
           /\ Mem = old
    /\ op.name \in InsertNames /\ ret = TRUE =>
           Size(Mem, QHead) = Size(old, QHead) + 1
    /\ op.name \in RemoveNames /\ ret # NULL =>
           Size(Mem, QHead) = Size(old, QHead) - 1
    /\ op.name \in RemoveNames /\ op.l # NULL /\ Size(old, QHead) = 0 =>
           ret = NULL /\ Size(Mem, QHead) = 0

C12_Witness ==
    /\ op.name = "q_size"
    /\ op.l = QHead
    /\ ret = 3

\* C13: q_insert_head and q_insert_tail that return false (null handle,
\* node allocation failed, string allocation failed) leave the memory as it
\* was: the links and the order are the same and no block stays allocated.
C13_InsertFails ==
    op.name \in InsertNames =>
        /\ ret = FALSE <=> op.outcome # "ok"
        /\ ret = FALSE =>
               /\ Mem = old
               /\ Ring = OldRing
               /\ LiveElems = {a \in Elems : old.st[a] = "live"}

C13_Witness ==
    /\ op.name = "q_insert_tail"
    /\ op.outcome = "nomem_str"
    /\ ret = FALSE
    /\ Len(Ring) = 2

\* C14: a successful q_insert_head(h, P) followed at once by
\* q_remove_head(h, ...) returns an element whose payload is P, byte for
\* byte, and leaves the elements and their order as before the insert.
C14_RoundTrip ==
    op.name = "q_remove_head" /\ op.l = QHead /\ pushed # NoPush =>
        /\ ret \in Elems
        /\ st[ret] = "live"
        /\ IsCopyOf(value[ret], pushed.s)
        /\ Ring = pushed.ring
        /\ Values = pushed.vals

C14_Witness ==
    /\ op.name = "q_remove_head"
    /\ op.l = QHead
    /\ pushed # NoPush
    /\ Len(pushed.ring) = 2
    /\ Len(pushed.s) = 3
    /\ value[ret] = <<97, 98>>

\* C15: q_free on a container with N linked elements releases those N
\* elements, each once, and then the sentinel; nothing else is released and
\* nothing twice, also for N = 0; q_free(NULL) releases nothing.
C15_Free ==
    op.name = "q_free" =>
        IF op.l = NULL THEN Mem = old
        ELSE /\ \A a \in Range(OldRing) : st[a] = "free" /\ old.st[a] = "live"
             /\ st[QHead] = "free"
             /\ \A a \in Elems \ Range(OldRing) :
                    st[a] = old.st[a] /\ value[a] = old.value[a]
             /\ LiveElems = held
             /\ err = {}

C15_Witness ==
    /\ op.name = "q_free"
    /\ op.l = QHead
    /\ Len(OldRing) = 2
    /\ held # {}
    /\ st[QHead] = "free"

\* C16: q_sort on a container that is sorted ascending leaves the order of
\* the elements as it is; so q_sort on the result of q_sort changes nothing.
C16_SortIdempotent ==
    /\ op.name = "q_sort" /\ Ascending(OldValues) => Ring = OldRing /\ Mem = old
    /\ op.name = "q_sort" /\ op.l = QHead => Sort(Mem, QHead) = Mem

C16_Witness ==
    /\ op.name = "q_sort"
    /\ op.l = QHead
    /\ Len(OldRing) = 4
    /\ Ascending(OldValues)
    /\ OldValues[2] = OldValues[3]
    /\ OldValues[1] # OldValues[4]
    /\ Ring = OldRing

Min(a, b) == IF a <= b THEN a ELSE b

\* C17: a removal with an output buffer of capacity c >= 1 leaves in it the
\* first min(len(payload), c - 1) bytes of the removed element's payload and
\* then a terminator; the element's payload is as it was.
C17_CopyOut ==
    op.name \in RemoveNames /\ ret # NULL /\ op.bufsize # NULL =>
        LET v == old.value[ret]
            k == Min(Len(v), op.bufsize - 1)
        IN  /\ Len(sp) = op.bufsize
            /\ \A i \in 1..k : sp[i] = v[i]
            /\ sp[k + 1] = 0
            /\ value[ret] = v

\* "ab" cut to "a" by a buffer of 2 bytes
C17_Witness ==
    /\ op.name = "q_remove_head"
    /\ ret # NULL
    /\ op.bufsize = 2
    /\ value[ret] = <<97, 98>>
    /\ sp = <<97, 0>>

\* C18: every public function called on a well-formed ring ends: each of
\* its loops reaches its stopping condition, the sentinel or the null end
\* of the chain, within the steps a ring of that size allows.
C18_Terminates ==
    /\ "hung" \notin err
    /\ op.name = "q_size" => ret <= Len(OldRing)
    /\ Idle /\ st[QHead] = "live" =>
           /\ "hung" \notin Free(Mem, QHead).err
           /\ \A tail \in BOOLEAN :
                  "hung" \notin Remove(Mem, QHead, NULL, tail).m.err

C18_Witness ==
    /\ op.name = "q_sort"
    /\ Len(OldRing) = 6
    /\ Ring # OldRing
    /\ err = {}

LinkOnly == {"q_swap", "q_reverse", "q_sort"}

\* C19: q_swap, q_reverse and q_sort allocate and release nothing, the ring
\* after the call is made of the nodes of the ring before it, and every
\* payload is as it was.
C19_OnlyLinks ==
    op.name \in LinkOnly =>
        /\ st = old.st
        /\ value = old.value
        /\ Range(Ring) = Range(OldRing)
        /\ Len(Ring) = Len(OldRing)
        /\ NoDup(Ring)

C19_Witness ==
    /\ op.name = "q_swap"
    /\ Len(OldRing) = 4
    /\ Ring = <<OldRing[2], OldRing[1], OldRing[4], OldRing[3]>>
    /\ Values # OldValues

\* C20: at all times every allocated element is either linked in the ring
\* or held by the caller who removed it, never both, and every other block
\* is released; no node of the ring is a released one; q_delete_mid and
\* q_delete_dup release each node they unlink once and read no released
\* node; no unlinked node stays allocated without an owner.
C20_Ownership ==
    /\ Range(Ring) \cap held = {}
    /\ Range(Ring) \cup held = LiveElems
    /\ NoDup(Ring)
    /\ err = {}
    /\ op.name \in {"q_delete_mid", "q_delete_dup"} =>
           /\ Range(Ring) \subseteq Range(OldRing)
           /\ \A a \in Range(OldRing) \ Range(Ring) :
                  st[a] = "free" /\ old.st[a] = "live"
           /\ \A a \in Elems \ Range(OldRing) : st[a] = old.st[a]

C20_Witness ==
    /\ op.name = "q_delete_dup"
    /\ Len(OldRing) = 2
    /\ Ring = <<>>
    /\ held # {}
    /\ st[QHead] = "live"

====
